---- MODULE Spec2Model ----
(***************************************************************************)
(* Model of checks/collector.py: the AgentPayload container with its       *)
(* emit() method, and the Collector with its run() cycle, its stop()       *)
(* signal and its periodic gates (_should_send_additional_data).           *)
(*                                                                         *)
(* Optional values (Python None / not yet bound) are sequences of length   *)
(* 0 or 1: <<>> is None, <<v>> is the value v.  Time is in minutes.        *)
(***************************************************************************)
EXTENDS Integers, Sequences, FiniteSets, TLC

\* ------------------------------------------------------------------ bounds
MaxChecks == 2      \* regular (checks.d) sources in a list handed to run()
MaxFailed == 1      \* sources that failed to initialize
MaxEmitters == 2    \* emitters given to the Collector
MaxRuns == 2        \* calls of Collector.run on one Collector
MaxTime == 2        \* the clock stops advancing here
MaxInterval == 2    \* largest configured gate interval
MaxValue == 2       \* values written into an AgentPayload by the mapping calls

\* --------------------------------------------------------------- constants
AGENT_METRICS_CHECK_NAME == "agent_metrics"
STATUS_OK == "OK"
STATUS_ERROR == "ERROR"
AgentCheckOK == "AgentCheck.OK"
AgentCheckCRITICAL == "AgentCheck.CRITICAL"
ExternalHostTagsWait == 3

METADATA_KEYS == {"meta", "tags", "host-tags", "systemStats",
                  "agent_checks", "gohai", "external_host_tags"}
DUPLICATE_KEYS == {"agentKey", "agentVersion"}
COMMON_ENDPOINT == ""
DATA_ENDPOINT == "metrics"
METADATA_ENDPOINT == "metadata"

Tasks == {"host_metadata", "external_host_tags", "agent_checks", "dd_check_tags"}

None == <<>>
Some(v) == <<v>>
Min(a, b) == IF a <= b THEN a ELSE b

\* ------------------------------------------------------------ AgentPayload
EmptyMap == [k \in {} |-> 0]

NewPayload == [data_payload |-> EmptyMap, meta_payload |-> EmptyMap]

\* dict[key] = value
Put(d, key, value) == [k \in DOMAIN d \cup {key} |-> IF k = key THEN value ELSE d[k]]

\* del dict[key]
Drop(d, key) == [k \in DOMAIN d \ {key} |-> d[k]]

\* AgentPayload.payload: the data map with the metadata map laid over it
MergedPayload(p) ==
    [k \in DOMAIN p.data_payload \cup DOMAIN p.meta_payload |->
        IF k \in DOMAIN p.meta_payload THEN p.meta_payload[k] ELSE p.data_payload[k]]

\* AgentPayload.__getitem__ (defined where the routed map holds the key)
GetItem(p, key) ==
    IF key \in METADATA_KEYS THEN p.meta_payload[key] ELSE p.data_payload[key]

\* the map __getitem__ reads for this key
RoutedMap(p, key) ==
    IF key \in METADATA_KEYS THEN p.meta_payload ELSE p.data_payload

\* every key is written to the data map
SetItem_Unrouted(p, key, value) ==
    [p EXCEPT !.data_payload = Put(p.data_payload, key, value)]

\* AgentPayload.__setitem__
SetItem(p, key, value) ==
    IF key \in DUPLICATE_KEYS
    THEN [data_payload |-> Put(p.data_payload, key, value),
          meta_payload |-> Put(p.meta_payload, key, value)]
    ELSE IF key \in METADATA_KEYS
    THEN [p EXCEPT !.meta_payload = Put(p.meta_payload, key, value)]
    ELSE [p EXCEPT !.data_payload = Put(p.data_payload, key, value)]

\* MutableMapping.update: __setitem__ for every entry of the mapping
RECURSIVE Update(_, _)
Update(p, m) ==
    IF DOMAIN m = {} THEN p
    ELSE LET k == CHOOSE x \in DOMAIN m : TRUE
         IN  Update(SetItem(p, k, m[k]), Drop(m, k))

\* MutableMapping.__contains__: __getitem__ does not raise KeyError
Contains(p, key) == key \in DOMAIN RoutedMap(p, key)

\* a duplicate key is deleted from the data map only
DelItem_DataOnly(p, key) ==
    IF key \in METADATA_KEYS
    THEN [payload |-> [p EXCEPT !.meta_payload = Drop(p.meta_payload, key)],
          raised |-> key \notin DOMAIN p.meta_payload]
    ELSE [payload |-> [p EXCEPT !.data_payload = Drop(p.data_payload, key)],
          raised |-> key \notin DOMAIN p.data_payload]

\* AgentPayload.__delitem__: the payload it leaves, and whether a del statement
\* raised KeyError
DelItem(p, key) ==
    IF key \in DUPLICATE_KEYS
    THEN IF key \notin DOMAIN p.data_payload
         THEN [payload |-> p, raised |-> TRUE]
         ELSE [payload |-> [data_payload |-> Drop(p.data_payload, key),
                            meta_payload |-> Drop(p.meta_payload, key)],
               raised |-> key \notin DOMAIN p.meta_payload]
    ELSE IF key \in METADATA_KEYS
    THEN [payload |-> [p EXCEPT !.meta_payload = Drop(p.meta_payload, key)],
          raised |-> key \notin DOMAIN p.meta_payload]
    ELSE [payload |-> [p EXCEPT !.data_payload = Drop(p.data_payload, key)],
          raised |-> key \notin DOMAIN p.data_payload]

\* the keys of a dict in the order the dict yields them
RECURSIVE KeysOf(_)
KeysOf(d) ==
    IF DOMAIN d = {} THEN <<>>
    ELSE LET k == CHOOSE x \in DOMAIN d : TRUE
         IN  <<k>> \o KeysOf(Drop(d, k))

\* the keys of the merged view are yielded
Iterate_Merged(p) == KeysOf(MergedPayload(p))

\* AgentPayload.__iter__: the keys it yields, in order
Iterate(p) == KeysOf(p.data_payload) \o KeysOf(p.meta_payload)

\* the length of the merged view
PayloadLen_Merged(p) == Cardinality(DOMAIN MergedPayload(p))

\* AgentPayload.__len__
PayloadLen(p) == Cardinality(DOMAIN p.data_payload) + Cardinality(DOMAIN p.meta_payload)

\* ------------------------------------------------------------------ state
VARIABLES
    \* Collector fields
    run_count, continue_running, emit_duration, push_times,
    hostname_metadata_cache, initialized_checks_d, init_failed_checks_d,
    agent_metrics, emitters, agentConfig, os,
    \* the frame of the running Collector.run call
    pc, payload, check_statuses, current_check_metadata, check_idx, failed_idx,
    start_event, timer, collect_duration,
    \* the frame of the running AgentPayload.emit call
    emit,
    \* the environment
    clock,
    \* observations of the current cycle and of the last calls
    ret, ran, emit_calls, persisted, lastGate, stop_seen, first_shipped,
    agent_metrics_context,
    \* the arguments and inputs of the current cycle, the gates that fired in it,
    \* the emission duration each cycle measured, the last mapping operation
    run_args, gates_fired, emit_log, last_op

selfVars == <<run_count, continue_running, emit_duration, push_times,
              hostname_metadata_cache, initialized_checks_d, init_failed_checks_d,
              agent_metrics, emitters, agentConfig, os>>
runVars == <<pc, payload, check_statuses, current_check_metadata, check_idx,
             failed_idx, start_event, timer, collect_duration>>
obsVars == <<ret, ran, emit_calls, persisted, lastGate, stop_seen, first_shipped,
             agent_metrics_context>>
histVars == <<run_args, gates_fired, emit_log, last_op>>
vars == <<selfVars, runVars, emit, clock, obsVars, histVars>>

\* -------------------------------------------------------------- inputs
\* the names of the regular sources, in registration order
CheckName(i) == "check" \o ToString(i)
FailedName(i) == "failed" \o ToString(i)
EmitterName(i) == "emitter" \o ToString(i)

\* <<check1 .. checkn>>
RegularList(n) == [i \in 1..n |-> CheckName(i)]

\* s with x inserted so that it becomes element number at
InsertAt(s, at, x) == SubSeq(s, 1, at - 1) \o <<x>> \o SubSeq(s, at, Len(s))

\* the lists a caller hands over as checksd['initialized_checks']: the regular
\* sources, with or without the agent metrics check somewhere among them
CheckLists ==
    {RegularList(n) : n \in 0..MaxChecks}
    \cup {InsertAt(RegularList(nat[1]), nat[2], AGENT_METRICS_CHECK_NAME) :
            nat \in {x \in (0..MaxChecks) \X (1..(MaxChecks + 1)) : x[2] <= x[1] + 1}}

\* checksd['init_failed_checks']: here the names, in the order iteritems() yields
FailedLists == {[i \in 1..n |-> FailedName(i)] : n \in 0..MaxFailed}

\* the checksd argument of run(): None, or the two collections
ChecksdInputs ==
    {None} \cup {Some([initialized_checks |-> c, init_failed_checks |-> f]) :
                    c \in CheckLists, f \in FailedLists}

\* agentConfig: the entries Collector reads
AgentConfigs ==
    [check_timings : BOOLEAN,
     create_dd_check_tags : BOOLEAN,
     metadata_interval : {MaxInterval},
     external_host_tags : {1},
     agent_checks_interval : {1, MaxInterval},
     dd_check_tags_interval : {1},
     custom_checks : {0},
     tags : {Some("tag")}]

\* one configuration, for the specifications whose claims do not depend on it
PlainConfig ==
    [check_timings |-> FALSE, create_dd_check_tags |-> TRUE,
     metadata_interval |-> MaxInterval, external_host_tags |-> 1,
     agent_checks_interval |-> 1, dd_check_tags_interval |-> 1,
     custom_checks |-> 0, tags |-> Some("tag")]

\* what the legacy sources and the resource source return in one cycle, and
\* whether the check call of a custom-module source raises
LegacyInputs ==
    [ganglia : BOOLEAN, dogstream_events : BOOLEAN, datadog : BOOLEAN, snaps : BOOLEAN,
     custom_raises : BOOLEAN]

QuietLegacy ==
    [ganglia |-> FALSE, dogstream_events |-> FALSE, datadog |-> FALSE, snaps |-> FALSE,
     custom_raises |-> FALSE]

\* what one run of a regular source does: check.run() or one of the getters
\* raises, or it returns its instance statuses and leaves metrics and events
CheckOutcomes ==
    {[raises |-> TRUE,  instance_statuses |-> <<>>, metrics |-> 0, events |-> 0],
     [raises |-> FALSE, instance_statuses |-> <<STATUS_OK>>, metrics |-> 1, events |-> 1],
     [raises |-> FALSE, instance_statuses |-> <<STATUS_ERROR>>, metrics |-> 0, events |-> 0]}

\* a source collected normally: nothing raised and no instance reported an error
CollectedNormally(o) ==
    ~o.raises /\ \A i \in DOMAIN o.instance_statuses : o.instance_statuses[i] = STATUS_OK

\* the outcomes of the gohai subprocess (lines 659-676)
GohaiOutcomes == {"ok", "not_found", "os_error", "failed"}

\* ---------------------------------------------------------------- Init
NoEmit == [active |-> FALSE, direct |-> FALSE, continue_running |-> TRUE,
           merge_payloads |-> TRUE, pass |-> 1, i |-> 1,
           local |-> <<>>, statuses |-> <<>>]

NoGate == [task |-> "none", run_count |-> 0, now |-> 0, before |-> <<>>, fire |-> FALSE]

\* Collector.__init__
CollectorInit(config, n_emitters, system) ==
    /\ emit_duration = None
    /\ agentConfig = config
    /\ os = system
    /\ emitters = [i \in 1..n_emitters |-> EmitterName(i)]
    /\ push_times =
        [t \in Tasks |->
            [start |-> IF t = "external_host_tags" THEN clock - ExternalHostTagsWait
                       ELSE clock,
             interval |-> CASE t = "host_metadata" -> config.metadata_interval
                            [] t = "external_host_tags" -> config.external_host_tags
                            [] t = "agent_checks" -> config.agent_checks_interval
                            [] t = "dd_check_tags" -> config.dd_check_tags_interval]]
    /\ run_count = 0
    /\ continue_running = TRUE
    /\ hostname_metadata_cache = None
    /\ initialized_checks_d = <<>>
    /\ init_failed_checks_d = <<>>
    /\ agent_metrics = None

IdleFrame ==
    /\ pc = "idle"
    /\ payload = NewPayload
    /\ check_statuses = <<>>
    /\ current_check_metadata = None
    /\ check_idx = 1
    /\ failed_idx = 1
    /\ start_event = TRUE
    /\ timer = 0
    /\ collect_duration = 0
    /\ emit = NoEmit

NoArgs == [checksd |-> None, win32_ok |-> TRUE, in |-> QuietLegacy]

NoOp == [op |-> "none", key |-> "", items |-> EmptyMap, raised |-> FALSE, had |-> FALSE, len |-> 0]

NoObservations ==
    /\ ret = "not_run"
    /\ ran = <<>>
    /\ emit_calls = <<>>
    /\ persisted = None
    /\ lastGate = NoGate
    /\ stop_seen = "no"
    /\ first_shipped = None
    /\ agent_metrics_context = None
    /\ run_args = NoArgs
    /\ gates_fired = {}
    /\ emit_log = <<>>
    /\ last_op = NoOp

\* a Collector on a Unix host, in one configuration, with any number of emitters
Init ==
    /\ clock = 0
    /\ \E n \in 0..MaxEmitters : CollectorInit(PlainConfig, n, "linux")
    /\ IdleFrame
    /\ NoObservations

\* ------------------------------------------------------- Collector.run
RECURSIVE SetAll(_, _)
\* payload[k] = v for each <<k, v>> of the sequence, in order
SetAll(p, kvs) ==
    IF kvs = <<>> THEN p
    ELSE SetAll(SetItem(p, Head(kvs)[1], Head(kvs)[2]), Tail(kvs))

\* payload['metrics'].extend(more): the list object inside the payload grows
ExtendList(p, key, more) == SetItem(p, key, GetItem(p, key) \o more)

\* payload[key][name] = value: the dict object inside the payload changes
PutInside(p, key, name, value) == SetItem(p, key, Put(GetItem(p, key), name, value))

\* Collector._build_payload
BuildPayload(p, now) ==
    SetAll(p, <<
        <<"collection_timestamp", now>>,
        <<"os", os>>,
        <<"python", "sys.version">>,
        <<"agentVersion", "version">>,
        <<"agentKey", "agent_key">>,
        <<"events", EmptyMap>>,
        <<"metrics", <<>> >>,
        <<"service_checks", <<>> >>,
        <<"resources", EmptyMap>>,
        <<"internalHostname", "hostname">>,
        <<"uuid", "uuid">>,
        <<"host-tags", EmptyMap>>,
        <<"external_host_tags", EmptyMap>> >>)

\* lines 290-349: the system checks of the platform
SystemChecks(p, win32_ok) ==
    IF os = "windows"
    THEN IF win32_ok THEN ExtendList(p, "metrics", <<"system.win32">>) ELSE p
    ELSE LET sd == Update(p, [networkTraffic |-> "v", cpuStats |-> "v"])
             unix == Update(sd, [load |-> "v", memPhysUsed |-> "v"])
             io == SetItem(unix, "ioStats", "v")
         IN  Update(io, [processes |-> "v"])

\* an event record as a source returns it
SourceEvent(name) == [event_type |-> name, timestamp |-> 0]

\* events[name] = new, or events[name] += new when the name is there already
AddEvents(p, name, new) ==
    LET events == GetItem(p, "events")
    IN  IF name \in DOMAIN events
        THEN PutInside(p, "events", name, events[name] \o new)
        ELSE PutInside(p, "events", name, new)

\* lines 351-373: ganglia, dogstream, ddforwarder
OldStyleChecks(p, in) ==
    LET g == IF in.ganglia THEN SetItem(p, "ganglia", "v") ELSE p
        d == IF in.dogstream_events
             THEN Update(AddEvents(g, "dogstream", <<SourceEvent("dogstream_event")>>),
                         [dogstreams |-> "v"])
             ELSE g
    IN  IF in.datadog THEN SetItem(d, "datadog", "v") ELSE d

\* the meta entry is written whether or not a resource source had snapshots
ResourcesChecks_AlwaysMeta(p, in) ==
    IF os = "windows" THEN p
    ELSE PutInside(p, "resources", "meta",
                   [agent_key |-> "agent_key", host |-> GetItem(p, "internalHostname")])

\* lines 375-396: the resource checks
ResourcesChecks(p, in) ==
    IF os = "windows" THEN p
    ELSE LET has_resource == in.snaps
             r == IF in.snaps
                  THEN PutInside(p, "resources", "processes",
                                 [snaps |-> "snaps", format_version |-> 1])
                  ELSE p
         IN  IF has_resource
             THEN PutInside(r, "resources", "meta",
                            [agent_key |-> "agent_key",
                             host |-> GetItem(r, "internalHostname")])
             ELSE r

\* lines 398-402: the custom checks that did not raise
MetricsChecks(p) ==
    IF agentConfig.custom_checks > 0
    THEN ExtendList(p, "metrics", [i \in 1..agentConfig.custom_checks |-> "custom"])
    ELSE p

\* the first position of x in s, 0 when it is not there
RECURSIVE IndexOf(_, _, _)
IndexOf(s, x, from) ==
    IF from > Len(s) THEN 0
    ELSE IF s[from] = x THEN from ELSE IndexOf(s, x, from + 1)

\* list.remove: s without its first x
Remove(s, x) ==
    LET at == IndexOf(s, x, 1)
    IN  IF at = 0 THEN s ELSE SubSeq(s, 1, at - 1) \o SubSeq(s, at + 1, Len(s))

\* the initialization-failure records are built before the sources are run
LoopPc_FailedFirst(checks, i, failed, f) ==
    IF f <= Len(failed) THEN "init_failed"
    ELSE IF i <= Len(checks) THEN "checks"
    ELSE "metadata"

\* the place run() is at once the sources loop is at index i of checks and the
\* initialization-failure loop at index f of failed
LoopPc(checks, i, failed, f) ==
    IF i <= Len(checks) THEN "checks"
    ELSE IF f <= Len(failed) THEN "init_failed"
    ELSE "metadata"

\* run() ends: with None, with the payload, or with an exception
Return(how) ==
    /\ pc' = "idle"
    /\ ret' = how

\* lines 258-402: the call, the lists, the agent metrics check, the skeleton,
\* the system, old-style, resource and custom checks
RunBegin(checksd, se, now, win32_ok, in) ==
    /\ pc = "idle"
    /\ run_count < MaxRuns
    /\ clock' = now
    /\ timer' = now
    /\ run_count' = run_count + 1
    /\ start_event' = se
    /\ LET given == IF checksd # None THEN checksd[1].initialized_checks
                    ELSE initialized_checks_d
           failed == IF checksd # None THEN checksd[1].init_failed_checks
                     ELSE init_failed_checks_d
           found == agent_metrics = None
                    /\ IndexOf(given, AGENT_METRICS_CHECK_NAME, 1) # 0
           checks == IF found THEN Remove(given, AGENT_METRICS_CHECK_NAME) ELSE given
           built == BuildPayload(NewPayload, now)
           filled == ResourcesChecks(OldStyleChecks(SystemChecks(built, win32_ok), in), in)
       IN  /\ initialized_checks_d' = checks
           /\ init_failed_checks_d' = failed
           /\ agent_metrics' = IF found THEN Some(AGENT_METRICS_CHECK_NAME)
                               ELSE agent_metrics
           /\ check_statuses' = <<>>
           /\ current_check_metadata' = None
           /\ check_idx' = 1
           /\ failed_idx' = 1
           /\ collect_duration' = 0
           /\ emit' = NoEmit
           /\ ran' = <<>>
           /\ emit_calls' = <<>>
           /\ persisted' = None
           /\ stop_seen' = "no"
           /\ agent_metrics_context' = None
           /\ run_args' = [checksd |-> checksd, win32_ok |-> win32_ok, in |-> in]
           /\ gates_fired' = {}
           /\ emit_log' = Append(emit_log, None)
           /\ IF agentConfig.custom_checks > 0 /\ in.custom_raises
              THEN /\ payload' = filled
                   /\ Return("raised")
              ELSE /\ payload' = MetricsChecks(filled)
                   /\ pc' = LoopPc(checks, 1, failed, 1)
                   /\ ret' = "running"
    /\ UNCHANGED <<continue_running, emit_duration, push_times, hostname_metadata_cache,
                   emitters, agentConfig, os, lastGate, first_shipped, last_op>>

\* -------------------------------------------------- check status records
\* CheckStatus(name, instance_statuses, metric_count, event_count,
\*             service_check_count, service_metadata=...)
CheckStatus(name, statuses, metrics, events, service_checks, metadata) ==
    [name |-> name, instance_statuses |-> Some(statuses),
     metric_count |-> metrics, event_count |-> events,
     service_check_count |-> service_checks,
     service_metadata |-> metadata, init_failed_error |-> None]

\* CheckStatus(name, None, None, None, None, init_failed_error=...)
InitFailedStatus(name) ==
    [name |-> name, instance_statuses |-> None,
     metric_count |-> 0, event_count |-> 0, service_check_count |-> 0,
     service_metadata |-> None, init_failed_error |-> Some("error")]

\* CheckStatus.status: ERROR if any instance reports ERROR, else OK
StatusOf(check_status) ==
    IF /\ check_status.instance_statuses # None
       /\ \E i \in DOMAIN check_status.instance_statuses[1] :
              check_status.instance_statuses[1][i] = STATUS_ERROR
    THEN STATUS_ERROR
    ELSE STATUS_OK

\* lines 452-458: the service check a source submits about itself
CheckStatusServiceCheck(check_status) ==
    [check |-> "datadog.agent.check_status",
     status |-> IF StatusOf(check_status) = STATUS_OK THEN AgentCheckOK
                ELSE AgentCheckCRITICAL,
     tags |-> <<"check:" \o check_status.name>>]

\* ------------------------------------------------- the sources loop
\* the loops do not look at the stop signal
StopRequested_Never == FALSE

\* lines 407 and 480: if not self.continue_running
StopRequested == ~continue_running

\* lines 406-408: the stop signal is seen at the top of the loop
CheckStopped ==
    /\ pc = "checks"
    /\ StopRequested
    /\ Return("None")
    /\ stop_seen' = "checks"
    /\ UNCHANGED <<selfVars, payload, check_statuses, current_check_metadata, check_idx,
                   failed_idx, start_event, timer, collect_duration, emit, clock,
                   ran, emit_calls, persisted, lastGate, first_shipped,
                   agent_metrics_context>>
    /\ UNCHANGED histVars

\* lines 417-442: what the try block leaves in payload and in the locals
CollectedPayload(p, name, o) ==
    IF o.raises THEN p
    ELSE LET m == ExtendList(p, "metrics", [j \in 1..o.metrics |-> name])
         IN  IF o.events > 0
             THEN AddEvents(m, name, [j \in 1..o.events |-> SourceEvent(name)])
             ELSE m

\* line 427: current_check_metadata is bound only when the getters were reached
CollectedMetadata(bound, name, o) ==
    IF o.raises THEN bound ELSE Some([i \in DOMAIN o.instance_statuses |-> name])

\* lines 444-450: the record of this run of the source
RunCheckStatus(name, o, service_metadata) ==
    IF o.raises
    THEN CheckStatus(name, o.instance_statuses, 0, 0, 0, service_metadata)
    ELSE CheckStatus(name, o.instance_statuses, o.metrics, o.events, 0, service_metadata)

\* lines 409-477: one source is run
CheckRun(o) ==
    /\ pc = "checks"
    /\ ~StopRequested
    /\ LET name == initialized_checks_d[check_idx]
           metadata == CollectedMetadata(current_check_metadata, name, o)
           collected == CollectedPayload(payload, name, o)
       IN  /\ ran' = Append(ran, [name |-> name, outcome |-> o])
           /\ current_check_metadata' = metadata
           /\ IF metadata = None
              THEN \* line 446 reads a local that was never bound
                   /\ payload' = collected
                   /\ Return("raised")
                   /\ UNCHANGED <<check_statuses, check_idx>>
              ELSE LET check_status == RunCheckStatus(name, o, metadata[1])
                       current_check_service_checks ==
                           <<CheckStatusServiceCheck(check_status)>>
                       with_sc == ExtendList(collected, "service_checks",
                                             current_check_service_checks)
                   IN  /\ check_statuses' = Append(check_statuses,
                              [check_status EXCEPT !.service_check_count =
                                  Len(current_check_service_checks)])
                       /\ payload' = IF agentConfig.check_timings
                                     THEN ExtendList(with_sc, "metrics",
                                              <<"datadog.agent.check_run_time">>)
                                     ELSE with_sc
                       /\ check_idx' = check_idx + 1
                       /\ pc' = LoopPc(initialized_checks_d, check_idx + 1,
                                       init_failed_checks_d, failed_idx)
                       /\ UNCHANGED ret
    /\ UNCHANGED <<selfVars, failed_idx, start_event, timer, collect_duration, emit,
                   clock, emit_calls, persisted, lastGate, stop_seen, first_shipped,
                   agent_metrics_context>>
    /\ UNCHANGED histVars

\* lines 479-481: the stop signal is seen at the top of the second loop
InitFailedStopped ==
    /\ pc = "init_failed"
    /\ StopRequested
    /\ Return("None")
    /\ stop_seen' = "init_failed"
    /\ UNCHANGED <<selfVars, payload, check_statuses, current_check_metadata, check_idx,
                   failed_idx, start_event, timer, collect_duration, emit, clock,
                   ran, emit_calls, persisted, lastGate, first_shipped,
                   agent_metrics_context>>
    /\ UNCHANGED histVars

\* lines 482-485: the record of one source that failed to initialize
InitFailedRecord ==
    /\ pc = "init_failed"
    /\ ~StopRequested
    /\ check_statuses' = Append(check_statuses,
                                InitFailedStatus(init_failed_checks_d[failed_idx]))
    /\ failed_idx' = failed_idx + 1
    /\ pc' = LoopPc(initialized_checks_d, check_idx, init_failed_checks_d, failed_idx + 1)
    /\ UNCHANGED <<selfVars, payload, current_check_metadata, check_idx, start_event,
                   timer, collect_duration, emit, clock, obsVars>>
    /\ UNCHANGED histVars

\* Collector.stop
Stop ==
    /\ continue_running
    /\ continue_running' = FALSE
    /\ UNCHANGED <<run_count, emit_duration, push_times, hostname_metadata_cache,
                   initialized_checks_d, init_failed_checks_d, agent_metrics, emitters,
                   agentConfig, os, runVars, emit, clock, obsVars>>
    /\ UNCHANGED histVars

\* ------------------------------------------------------ periodic gates
\* Collector._is_first_run
IsFirstRun(count) == count <= 1

\* the interval must be exceeded, not reached
IntervalPassed_Strict(now, start, interval) == now - start > interval

\* the test of line 795
IntervalPassed(now, start, interval) == now - start >= interval

\* the first cycle rearms the gate as the later ones do
ShouldSendAdditionalData_RearmsAlways(count, times, data_name, now) ==
    IF count <= 1 \/ now - times[data_name].start >= times[data_name].interval
    THEN [fire |-> TRUE, push_times |-> [times EXCEPT ![data_name].start = now]]
    ELSE [fire |-> FALSE, push_times |-> times]

\* Collector._should_send_additional_data: what it returns and the push_times
\* it leaves
ShouldSendAdditionalData(count, times, data_name, now) ==
    IF IsFirstRun(count)
    THEN [fire |-> TRUE, push_times |-> times]
    ELSE IF IntervalPassed(now, times[data_name].start, times[data_name].interval)
    THEN [fire |-> TRUE, push_times |-> [times EXCEPT ![data_name].start = now]]
    ELSE [fire |-> FALSE, push_times |-> times]

\* the values time.time() can return next
Nows == {clock, Min(clock + 1, MaxTime)}

\* the record of a gate call
GateCall(data_name, now, gate) ==
    [task |-> data_name, run_count |-> run_count, now |-> now, before |-> push_times,
     fire |-> gate.fire]

\* Collector._get_hostname_metadata
HostnameMetadata == [hostname |-> "hostname", refreshed_in_run |-> run_count]

\* lines 648-654: the startup event
AddStartup(p, now) ==
    PutInside(p, "events", "System",
              <<[event_type |-> "Agent Startup", timestamp |-> now]>>)

\* the system stats are included whenever start_event is set
BeforeGates_EveryCycle(p, now) ==
    LET up == ExtendList(p, "service_checks",
                         <<[check |-> "datadog.agent.up", status |-> AgentCheckOK,
                            tags |-> <<>>]>>)
    IN  IF start_event
        THEN AddStartup(SetItem(up, "systemStats", "system_stats"), now)
        ELSE up

\* lines 487-494 and 642-654: the agent's own service check, and the first postback
BeforeGates(p, now) ==
    LET up == ExtendList(p, "service_checks",
                         <<[check |-> "datadog.agent.up", status |-> AgentCheckOK,
                            tags |-> <<>>]>>)
    IN  IF start_event /\ IsFirstRun(run_count)
        THEN AddStartup(SetItem(up, "systemStats", "system_stats"), now)
        ELSE up

\* lines 678-696: what a firing host_metadata gate puts in the payload
HostMetadata(p, gohai) ==
    LET g == IF gohai = "ok" THEN SetItem(p, "gohai", "gohai_metadata") ELSE p
        m == SetAll(g, << <<"systemStats", "get_system_stats">>,
                          <<"meta", Some(HostnameMetadata)>> >>)
    IN  IF agentConfig.tags # None
        THEN PutInside(m, "host-tags", "system", <<agentConfig.tags[1]>>)
        ELSE m

\* lines 487-497 and 642-701
PopulateHostMetadata(now, gohai) ==
    /\ pc = "metadata"
    /\ clock' = now
    /\ LET gate == ShouldSendAdditionalData(run_count, push_times, "host_metadata", now)
           before == BeforeGates(payload, now)
       IN  /\ push_times' = gate.push_times
           /\ lastGate' = GateCall("host_metadata", now, gate)
           /\ gates_fired' = IF gate.fire THEN gates_fired \cup {"host_metadata"} ELSE gates_fired
           /\ IF gate.fire
              THEN IF gohai = "os_error"
                   THEN \* line 674 raises again what is no missing file
                        /\ payload' = before
                        /\ Return("raised")
                        /\ UNCHANGED hostname_metadata_cache
                   ELSE /\ payload' = HostMetadata(before, gohai)
                        /\ hostname_metadata_cache' = Some(HostnameMetadata)
                        /\ pc' = "external_host_tags"
                        /\ UNCHANGED ret
              ELSE /\ payload' = before
                   /\ pc' = "external_host_tags"
                   /\ UNCHANGED <<hostname_metadata_cache, ret>>
    /\ UNCHANGED <<run_count, continue_running, emit_duration, initialized_checks_d,
                   init_failed_checks_d, agent_metrics, emitters, agentConfig, os,
                   check_statuses, current_check_metadata, check_idx, failed_idx,
                   start_event, timer, collect_duration, emit, ran, emit_calls,
                   persisted, stop_seen, first_shipped, agent_metrics_context>>
    /\ UNCHANGED <<run_args, emit_log, last_op>>

\* the sources that have get_external_host_tags, and what it returns
ExternalHostTags(checks) ==
    IF IndexOf(checks, CheckName(1), 1) # 0 THEN <<"external_host">> ELSE <<>>

\* lines 703-717
PopulateExternalHostTags(now) ==
    /\ pc = "external_host_tags"
    /\ clock' = now
    /\ LET gate == ShouldSendAdditionalData(run_count, push_times,
                                            "external_host_tags", now)
           external_host_tags == IF gate.fire THEN ExternalHostTags(initialized_checks_d)
                                 ELSE <<>>
       IN  /\ push_times' = gate.push_times
           /\ lastGate' = GateCall("external_host_tags", now, gate)
           /\ gates_fired' = IF gate.fire THEN gates_fired \cup {"external_host_tags"} ELSE gates_fired
           /\ payload' = IF external_host_tags # <<>>
                         THEN SetItem(payload, "external_host_tags", external_host_tags)
                         ELSE payload
    /\ pc' = "agent_checks"
    /\ UNCHANGED <<run_count, continue_running, emit_duration, hostname_metadata_cache,
                   initialized_checks_d, init_failed_checks_d, agent_metrics, emitters,
                   agentConfig, os, check_statuses, current_check_metadata, check_idx,
                   failed_idx, start_event, timer, collect_duration, emit, ret, ran,
                   emit_calls, persisted, stop_seen, first_shipped,
                   agent_metrics_context>>
    /\ UNCHANGED <<run_args, emit_log, last_op>>

\* lines 723-744: the entries of one check status record
AgentChecksOf(check_status) ==
    IF check_status.instance_statuses # None
    THEN [i \in DOMAIN check_status.instance_statuses[1] |->
            <<check_status.name, "source_type", ToString(i),
              check_status.instance_statuses[1][i],
              "", check_status.service_metadata[i]>>]
    ELSE << <<check_status.name, "source_type", "initialization",
              StatusOf(check_status), "repr(init_failed_error)">> >>

\* line 734: service_metadata[i] raises IndexError when the record has more
\* instance statuses than metadata entries
AgentChecksRaises(statuses) ==
    \E k \in DOMAIN statuses :
        /\ statuses[k].instance_statuses # None
        /\ Len(statuses[k].instance_statuses[1]) > Len(statuses[k].service_metadata)

RECURSIVE AgentChecks(_)
AgentChecks(statuses) ==
    IF statuses = <<>> THEN <<>>
    ELSE AgentChecksOf(Head(statuses)) \o AgentChecks(Tail(statuses))

\* the host metadata is fetched again instead of read from the cache
AgentChecksMeta_Fresh == Some(HostnameMetadata)

\* line 746: the meta that goes with agent_checks is the cached host metadata
AgentChecksMeta == hostname_metadata_cache

\* lines 719-746
PopulateAgentChecks(now) ==
    /\ pc = "agent_checks"
    /\ clock' = now
    /\ LET gate == ShouldSendAdditionalData(run_count, push_times, "agent_checks", now)
       IN  /\ push_times' = gate.push_times
           /\ lastGate' = GateCall("agent_checks", now, gate)
           /\ gates_fired' = IF gate.fire THEN gates_fired \cup {"agent_checks"} ELSE gates_fired
           /\ IF gate.fire /\ AgentChecksRaises(check_statuses)
              THEN \* the IndexError of line 734 leaves run
                   /\ Return("raised")
                   /\ UNCHANGED payload
              ELSE /\ payload' = IF gate.fire
                                 THEN SetAll(payload,
                                        << <<"agent_checks", AgentChecks(check_statuses)>>,
                                           <<"meta", AgentChecksMeta>> >>)
                                 ELSE payload
                   /\ pc' = "dd_check_tags"
                   /\ UNCHANGED ret
    /\ UNCHANGED <<run_count, continue_running, emit_duration, hostname_metadata_cache,
                   initialized_checks_d, init_failed_checks_d, agent_metrics, emitters,
                   agentConfig, os, check_statuses, current_check_metadata, check_idx,
                   failed_idx, start_event, timer, collect_duration, emit, ran,
                   emit_calls, persisted, stop_seen, first_shipped,
                   agent_metrics_context>>
    /\ UNCHANGED <<run_args, emit_log, last_op>>

\* lines 751-758: the dd_check host tags join the system host tags
DdCheckTags(p, checks) ==
    LET app_tags_list == [i \in DOMAIN checks |-> "dd_check:" \o checks[i]]
        host_tags == GetItem(p, "host-tags")
        system == IF "system" \in DOMAIN host_tags THEN host_tags["system"] ELSE <<>>
    IN  PutInside(p, "host-tags", "system", system \o app_tags_list)

\* the dd_check_tags gate is asked whatever the configuration says
DdCheckTagsAsked_Always == TRUE

\* line 749: the gate is asked only when create_dd_check_tags is set
DdCheckTagsAsked == agentConfig.create_dd_check_tags

\* lines 748-758 and 499
PopulateDdCheckTags(now) ==
    /\ pc = "dd_check_tags"
    /\ clock' = now
    /\ IF DdCheckTagsAsked
       THEN LET gate == ShouldSendAdditionalData(run_count, push_times,
                                                 "dd_check_tags", now)
            IN  /\ push_times' = gate.push_times
                /\ lastGate' = GateCall("dd_check_tags", now, gate)
                /\ gates_fired' = IF gate.fire THEN gates_fired \cup {"dd_check_tags"}
                                  ELSE gates_fired
                /\ payload' = IF gate.fire THEN DdCheckTags(payload, initialized_checks_d)
                              ELSE payload
       ELSE UNCHANGED <<push_times, lastGate, payload, gates_fired>>
    /\ collect_duration' = now - timer
    /\ timer' = now
    /\ pc' = "agent_metrics"
    /\ UNCHANGED <<run_count, continue_running, emit_duration, hostname_metadata_cache,
                   initialized_checks_d, init_failed_checks_d, agent_metrics, emitters,
                   agentConfig, os, check_statuses, current_check_metadata, check_idx,
                   failed_idx, start_event, emit, ret, ran, emit_calls, persisted,
                   stop_seen, first_shipped, agent_metrics_context>>
    /\ UNCHANGED <<run_args, emit_log, last_op>>

\* the emission duration is not handed to the agent metrics check
MetricContext_NoEmitTime(collection_time, emit_time) ==
    [collection_time |-> collection_time, emit_time |-> None, cpu_time |-> os # "windows"]

\* lines 503-508 and 517-521: the context handed to set_metric_context
MetricContext(collection_time, emit_time) ==
    [collection_time |-> collection_time, emit_time |-> emit_time,
     cpu_time |-> os # "windows"]

\* lines 501-527: the agent metrics check runs last
RunAgentMetrics ==
    /\ pc = "agent_metrics"
    /\ IF agent_metrics # None
       THEN /\ agent_metrics_context' =
                  Some(MetricContext(collect_duration, emit_duration))
            /\ payload' = ExtendList(payload, "metrics", <<"datadog.agent.collector">>)
       ELSE UNCHANGED <<agent_metrics_context, payload>>
    /\ pc' = "emit"
    /\ UNCHANGED <<selfVars, check_statuses, current_check_metadata, check_idx,
                   failed_idx, start_event, timer, collect_duration, emit, clock, ret,
                   ran, emit_calls, persisted, lastGate, stop_seen, first_shipped>>
    /\ UNCHANGED histVars

\* ------------------------------------------------------ AgentPayload.emit
\* the status of line 128 is kept when the emitter raises
EmitterStatus_NeverFailed(name, raised) == [name |-> name, failed |-> FALSE]

\* EmitterStatus(name) and EmitterStatus(name, e)
EmitterStatus(name, raised) == [name |-> name, failed |-> raised]

\* the payload and the endpoint of the _emit_payload call number pass
EmitView(p, merge_payloads, pass) ==
    IF merge_payloads THEN MergedPayload(p)
    ELSE IF pass = 1 THEN p.data_payload ELSE p.meta_payload

\* the two endpoints of the split emit are exchanged
EmitEndpoint_Swapped(merge_payloads, pass) ==
    IF merge_payloads THEN COMMON_ENDPOINT
    ELSE IF pass = 1 THEN METADATA_ENDPOINT ELSE DATA_ENDPOINT

EmitEndpoint(merge_payloads, pass) ==
    IF merge_payloads THEN COMMON_ENDPOINT
    ELSE IF pass = 1 THEN DATA_ENDPOINT ELSE METADATA_ENDPOINT

\* the test of line 125 is left out
KeepEmitting_Always(e) == TRUE

\* line 125: _emit_payload tests the continue_running it was called with
KeepEmitting(e) == e.continue_running

\* emit is entered as if the Collector were still running
EmitFrame_Running(running, merge_payloads, direct) ==
    [active |-> TRUE, direct |-> direct, continue_running |-> TRUE,
     merge_payloads |-> merge_payloads, pass |-> 1, i |-> 1,
     local |-> <<>>, statuses |-> <<>>]

\* lines 109-118 and 138-141: emit is entered; continue_running is its argument
EmitFrame(running, merge_payloads, direct) ==
    [active |-> TRUE, direct |-> direct, continue_running |-> running,
     merge_payloads |-> merge_payloads, pass |-> 1, i |-> 1,
     local |-> <<>>, statuses |-> <<>>]

\* lines 529-531: run() calls emit with the value continue_running has now
EmitEnter ==
    /\ pc = "emit"
    /\ ~emit.active
    /\ emit' = EmitFrame(continue_running, TRUE, FALSE)
    /\ UNCHANGED <<selfVars, pc, payload, check_statuses, current_check_metadata,
                   check_idx, failed_idx, start_event, timer, collect_duration, clock,
                   obsVars>>
    /\ UNCHANGED histVars

\* lines 127-135: one emitter is called and its status recorded
EmitCall(raises) ==
    /\ pc = "emit"
    /\ emit.active
    /\ emit.i <= Len(emitters)
    /\ KeepEmitting(emit)
    /\ LET name == emitters[emit.i]
           view == EmitView(payload, emit.merge_payloads, emit.pass)
       IN  /\ emit_calls' = Append(emit_calls,
                  [emitter |-> name, payload |-> view,
                   endpoint |-> EmitEndpoint(emit.merge_payloads, emit.pass),
                   raised |-> raises, stopped |-> ~continue_running])
           /\ emit' = [emit EXCEPT !.local = Append(@, EmitterStatus(name, raises)),
                                   !.i = @ + 1]
           /\ first_shipped' = IF first_shipped = None THEN Some(DOMAIN view)
                               ELSE first_shipped
    /\ UNCHANGED <<selfVars, runVars, clock, ret, ran, persisted, lastGate, stop_seen,
                   agent_metrics_context>>
    /\ UNCHANGED histVars

\* _emit_payload returns its statuses to emit, which extends its own list and
\* goes on to the next payload or returns (lines 136, 138-144, 532)
EmitPayloadReturns(now) ==
    LET statuses == emit.statuses \o emit.local
        last == emit.merge_payloads \/ emit.pass = 2
    IN  IF ~last
        THEN /\ emit' = [emit EXCEPT !.statuses = statuses, !.local = <<>>,
                                     !.pass = 2, !.i = 1]
             /\ UNCHANGED <<pc, emit_duration, timer, clock, emit_log>>
        ELSE /\ emit' = [emit EXCEPT !.statuses = statuses, !.local = <<>>,
                                     !.active = FALSE]
             /\ IF emit.direct
                THEN /\ pc' = "emitted"
                     /\ UNCHANGED <<emit_duration, timer, clock, emit_log>>
                ELSE /\ pc' = "persist"
                     /\ emit_duration' = Some(now - timer)
                     /\ timer' = now
                     /\ clock' = now
                     /\ emit_log' = [emit_log EXCEPT ![run_count] = Some(now - timer)]

\* lines 125-126: the emitter is not called when continue_running is false
EmitStopped(now) ==
    /\ pc = "emit"
    /\ emit.active
    /\ emit.i <= Len(emitters)
    /\ ~KeepEmitting(emit)
    /\ EmitPayloadReturns(now)
    /\ stop_seen' = "emit"
    /\ UNCHANGED <<run_count, continue_running, push_times, hostname_metadata_cache,
                   initialized_checks_d, init_failed_checks_d, agent_metrics, emitters,
                   agentConfig, os, payload, check_statuses, current_check_metadata,
                   check_idx, failed_idx, start_event, collect_duration, ret, ran,
                   emit_calls, persisted, lastGate, first_shipped,
                   agent_metrics_context>>
    /\ UNCHANGED <<run_args, gates_fired, last_op>>

\* line 136: the loop over the emitters is over
EmitLoopEnd(now) ==
    /\ pc = "emit"
    /\ emit.active
    /\ emit.i > Len(emitters)
    /\ EmitPayloadReturns(now)
    /\ UNCHANGED <<run_count, continue_running, push_times, hostname_metadata_cache,
                   initialized_checks_d, init_failed_checks_d, agent_metrics, emitters,
                   agentConfig, os, payload, check_statuses, current_check_metadata,
                   check_idx, failed_idx, start_event, collect_duration, obsVars>>
    /\ UNCHANGED <<run_args, gates_fired, last_op>>

\* the exception of persist() leaves run
PersistOutcome_Propagates(raises) == IF raises THEN "raised" ELSE "payload"

\* lines 535-539 and 551: how run ends after persist() returned or raised
PersistOutcome(raises) == "payload"

\* lines 534-551: the status is persisted, a failure of it swallowed, and run
\* returns the payload
Persist(raises) ==
    /\ pc = "persist"
    /\ persisted' = Some([check_statuses |-> check_statuses,
                          emitter_statuses |-> emit.statuses,
                          hostname_metadata |-> hostname_metadata_cache,
                          raised |-> raises])
    /\ Return(PersistOutcome(raises))
    /\ UNCHANGED <<selfVars, payload, check_statuses, current_check_metadata, check_idx,
                   failed_idx, start_event, timer, collect_duration, emit, clock, ran,
                   emit_calls, lastGate, stop_seen, first_shipped,
                   agent_metrics_context>>
    /\ UNCHANGED histVars

\* ------------------------------------------------------------ the cycle
\* the first call of run hands over the sources, the later calls none
FirstChecksd ==
    IF run_count = 0 THEN ChecksdInputs \ {None} ELSE {None}

\* the cycles of one Collector, with the stop signal arriving at any moment; the
\* cycles follow each other within one reading of the clock (SpecGates lets time pass)
Next ==
    \/ \E checksd \in FirstChecksd : RunBegin(checksd, TRUE, clock, TRUE, QuietLegacy)
    \/ CheckStopped
    \/ \E o \in CheckOutcomes : CheckRun(o)
    \/ InitFailedStopped
    \/ InitFailedRecord
    \/ \E gohai \in {"ok", "os_error"} : PopulateHostMetadata(clock, gohai)
    \/ PopulateExternalHostTags(clock)
    \/ PopulateAgentChecks(clock)
    \/ PopulateDdCheckTags(clock)
    \/ RunAgentMetrics
    \/ EmitEnter
    \/ \E raises \in BOOLEAN : EmitCall(raises)
    \/ EmitStopped(clock)
    \/ EmitLoopEnd(clock)
    \/ \E raises \in BOOLEAN : Persist(raises)
    \/ Stop

Spec == Init /\ [][Next]_vars

\* ------------------------------------------- AgentPayload.emit called directly
\* payloads with entries in both maps
EmitPayloads ==
    {BuildPayload(NewPayload, 0),
     SetAll(BuildPayload(NewPayload, 0),
            << <<"metrics", <<"metric">> >>, <<"meta", Some("meta")>>,
               <<"systemStats", "system_stats">> >>)}

\* a caller holds a payload and a list of emitters
InitEmit ==
    /\ clock = 0
    /\ \E n \in 0..MaxEmitters : CollectorInit(PlainConfig, n, "linux")
    /\ pc = "caller"
    /\ payload \in EmitPayloads
    /\ check_statuses = <<>>
    /\ current_check_metadata = None
    /\ check_idx = 1
    /\ failed_idx = 1
    /\ start_event = TRUE
    /\ timer = 0
    /\ collect_duration = 0
    /\ emit = NoEmit
    /\ NoObservations

\* payload.emit(log, config, emitters, continue_running, merge_payloads)
EmitDirect(running, merge_payloads) ==
    /\ pc = "caller"
    /\ emit' = EmitFrame(running, merge_payloads, TRUE)
    /\ pc' = "emit"
    /\ UNCHANGED <<selfVars, payload, check_statuses, current_check_metadata,
                   check_idx, failed_idx, start_event, timer, collect_duration, clock,
                   obsVars>>
    /\ UNCHANGED histVars

NextEmit ==
    \/ \E running \in BOOLEAN, merge_payloads \in BOOLEAN :
            EmitDirect(running, merge_payloads)
    \/ \E raises \in BOOLEAN : EmitCall(raises)
    \/ EmitStopped(clock)
    \/ EmitLoopEnd(clock)

SpecEmit == InitEmit /\ [][NextEmit]_vars

\* ------------------------------------------------- the gates as time passes
\* a Collector in any configuration of the intervals
InitGates ==
    /\ clock = 0
    /\ \E config \in AgentConfigs : CollectorInit(config, 1, "linux")
    /\ IdleFrame
    /\ NoObservations

GateChecksd ==
    IF run_count = 0
    THEN {Some([initialized_checks |-> RegularList(1), init_failed_checks |-> <<>>])}
    ELSE {None}

\* cycles whose sources collect normally, with the clock advancing between the
\* readings of it
NextGates ==
    \/ \E checksd \in GateChecksd, se \in BOOLEAN, now \in Nows :
            RunBegin(checksd, se, now, TRUE, QuietLegacy)
    \/ \E o \in {x \in CheckOutcomes : ~x.raises} : CheckRun(o)
    \/ \E now \in Nows, gohai \in GohaiOutcomes \ {"os_error"} :
            PopulateHostMetadata(now, gohai)
    \/ \E now \in Nows : PopulateExternalHostTags(now)
    \/ \E now \in Nows : PopulateAgentChecks(now)
    \/ \E now \in Nows : PopulateDdCheckTags(now)
    \/ RunAgentMetrics
    \/ EmitEnter
    \/ EmitCall(FALSE)
    \/ \E now \in Nows : EmitLoopEnd(now)
    \/ Persist(FALSE)

SpecGates == InitGates /\ [][NextGates]_vars

\* ------------------------------- the legacy, resource and custom-module sources
\* a configuration with one custom-module source
LegacyConfig == [PlainConfig EXCEPT !.custom_checks = 1]

\* a Collector on a Unix or on a Windows host
InitLegacy ==
    /\ clock = 0
    /\ \E system \in {"linux", "windows"} : CollectorInit(LegacyConfig, 1, system)
    /\ IdleFrame
    /\ NoObservations

\* the first call of run hands over the agent metrics check, regular sources and
\* a source that failed to initialize
LegacyChecksd ==
    IF run_count = 0
    THEN {Some([initialized_checks |-> <<AGENT_METRICS_CHECK_NAME>> \o RegularList(2),
                init_failed_checks |-> <<FailedName(1)>>])}
    ELSE {None}

\* cycles in which the legacy sources, the resource source and the custom-module
\* source return or raise in every combination; the regular sources collect
NextLegacy ==
    \/ \E checksd \in LegacyChecksd, win32_ok \in BOOLEAN, in \in LegacyInputs :
            RunBegin(checksd, TRUE, clock, win32_ok, in)
    \/ \E o \in {x \in CheckOutcomes : CollectedNormally(x)} : CheckRun(o)
    \/ InitFailedRecord
    \/ PopulateHostMetadata(clock, "ok")
    \/ PopulateExternalHostTags(clock)
    \/ PopulateAgentChecks(clock)
    \/ PopulateDdCheckTags(clock)
    \/ RunAgentMetrics
    \/ EmitEnter
    \/ EmitCall(FALSE)
    \/ EmitLoopEnd(clock)
    \/ Persist(FALSE)

SpecLegacy == InitLegacy /\ [][NextLegacy]_vars

\* ------------------------------------- cycles that hand over new source lists
InitReload ==
    /\ clock = 0
    /\ CollectorInit(PlainConfig, 1, "linux")
    /\ IdleFrame
    /\ NoObservations

\* the caller passes no checksd, or a new list each time: with or without the
\* agent metrics check, with or without a regular source
ReloadChecksd ==
    {None} \cup {Some([initialized_checks |-> c, init_failed_checks |-> <<>>]) :
                    c \in {<<>>, <<AGENT_METRICS_CHECK_NAME>>, RegularList(1),
                           <<AGENT_METRICS_CHECK_NAME>> \o RegularList(1)}}

\* cycles with the stop signal arriving at any moment and the clock advancing
\* while the emitters are called
NextReload ==
    \/ \E checksd \in ReloadChecksd : RunBegin(checksd, TRUE, clock, TRUE, QuietLegacy)
    \/ CheckStopped
    \/ \E o \in {x \in CheckOutcomes : x.raises \/ CollectedNormally(x)} : CheckRun(o)
    \/ PopulateHostMetadata(clock, "ok")
    \/ PopulateExternalHostTags(clock)
    \/ PopulateAgentChecks(clock)
    \/ PopulateDdCheckTags(clock)
    \/ RunAgentMetrics
    \/ EmitEnter
    \/ EmitCall(FALSE)
    \/ \E now \in Nows : EmitStopped(now)
    \/ \E now \in Nows : EmitLoopEnd(now)
    \/ Persist(FALSE)
    \/ Stop

SpecReload == InitReload /\ [][NextReload]_vars

\* --------------------------------------- sources of every kind in one cycle
\* what a source does: it collects, with one instance or with two; run() raises;
\* or run() returns the statuses of two instances and a getter raises after it
SourceOutcomes ==
    {[raises |-> FALSE, instance_statuses |-> <<STATUS_OK>>, metrics |-> 1, events |-> 1],
     [raises |-> FALSE, instance_statuses |-> <<STATUS_OK, STATUS_ERROR>>,
      metrics |-> 1, events |-> 0],
     [raises |-> TRUE, instance_statuses |-> <<>>, metrics |-> 0, events |-> 0],
     [raises |-> TRUE, instance_statuses |-> <<STATUS_OK, STATUS_OK>>,
      metrics |-> 0, events |-> 0]}

\* the first call of run hands over regular sources and sources that failed to
\* initialize, the later calls none
SourcesChecksd ==
    IF run_count = 0
    THEN {Some([initialized_checks |-> RegularList(n), init_failed_checks |-> f]) :
            n \in 0..MaxChecks, f \in FailedLists}
    ELSE {None}

\* cycles in which every source does any of the things a source can do, with
\* time passing between the cycles
NextSources ==
    \/ \E checksd \in SourcesChecksd, now \in Nows :
            RunBegin(checksd, TRUE, now, TRUE, QuietLegacy)
    \/ \E o \in SourceOutcomes : CheckRun(o)
    \/ InitFailedRecord
    \/ PopulateHostMetadata(clock, "ok")
    \/ PopulateExternalHostTags(clock)
    \/ PopulateAgentChecks(clock)
    \/ PopulateDdCheckTags(clock)
    \/ RunAgentMetrics
    \/ EmitEnter
    \/ EmitCall(FALSE)
    \/ EmitLoopEnd(clock)
    \/ Persist(FALSE)

SpecSources == InitReload /\ [][NextSources]_vars

\* ----------------------------------------- the events map within one cycle
\* lists whose sources share a name with each other, with the dogstream source
\* or with the startup event
EventChecksd ==
    IF run_count = 0
    THEN {Some([initialized_checks |-> c, init_failed_checks |-> <<>>]) :
            c \in {<<CheckName(1), CheckName(1)>>, <<"dogstream", CheckName(1)>>,
                   <<CheckName(1), "System">>}}
    ELSE {None}

\* cycles with and without dogstream events and the startup event
NextEvents ==
    \/ \E checksd \in EventChecksd, se \in BOOLEAN,
          in \in {x \in LegacyInputs : ~x.ganglia /\ ~x.datadog /\ ~x.snaps /\ ~x.custom_raises} :
            RunBegin(checksd, se, clock, TRUE, in)
    \/ \E o \in CheckOutcomes : CheckRun(o)
    \/ PopulateHostMetadata(clock, "ok")
    \/ PopulateExternalHostTags(clock)
    \/ PopulateAgentChecks(clock)
    \/ PopulateDdCheckTags(clock)
    \/ RunAgentMetrics
    \/ EmitEnter
    \/ EmitCall(FALSE)
    \/ EmitLoopEnd(clock)
    \/ Persist(FALSE)

SpecEvents == InitReload /\ [][NextEvents]_vars

\* ------------------------------------ AgentPayload used as a mutable mapping
\* keys of the three kinds: data keys, metadata keys, duplicate keys
PayloadKeys == {"metrics", "meta", "tags", "agentKey", "agentVersion"}

PayloadValues == 1..MaxValue

\* the mappings handed to update: two keys, one value
UpdateMaps ==
    {[k \in keys |-> v] : keys \in {x \in SUBSET PayloadKeys : Cardinality(x) = 2},
                          v \in PayloadValues}

\* a caller holds a new AgentPayload
InitPayload ==
    /\ clock = 0
    /\ CollectorInit(PlainConfig, 0, "linux")
    /\ pc = "mapping"
    /\ payload = NewPayload
    /\ check_statuses = <<>>
    /\ current_check_metadata = None
    /\ check_idx = 1
    /\ failed_idx = 1
    /\ start_event = TRUE
    /\ timer = 0
    /\ collect_duration = 0
    /\ emit = NoEmit
    /\ NoObservations

\* what a mapping call leaves alone
mappingFrame == <<selfVars, pc, check_statuses, current_check_metadata, check_idx,
                  failed_idx, start_event, timer, collect_duration, emit, clock,
                  obsVars, run_args, gates_fired, emit_log>>

\* the record of a mapping call: the entries written, and what the payload was
\* like before
MappingCall(op, key, items, raised) ==
    [op |-> op, key |-> key, items |-> items, raised |-> raised,
     had |-> key \in PayloadKeys /\ Contains(payload, key), len |-> PayloadLen(payload)]

\* payload[key] = value
PayloadSet(key, value) ==
    /\ pc = "mapping"
    /\ payload' = SetItem(payload, key, value)
    /\ last_op' = MappingCall("set", key, [k \in {key} |-> value], FALSE)
    /\ UNCHANGED mappingFrame

\* payload.update(m)
PayloadUpdate(m) ==
    /\ pc = "mapping"
    /\ payload' = Update(payload, m)
    /\ last_op' = MappingCall("update", "", m, FALSE)
    /\ UNCHANGED mappingFrame

\* del payload[key]
PayloadDel(key) ==
    /\ pc = "mapping"
    /\ payload' = DelItem(payload, key).payload
    /\ last_op' = MappingCall("del", key, EmptyMap, DelItem(payload, key).raised)
    /\ UNCHANGED mappingFrame

NextPayload ==
    \/ \E key \in PayloadKeys, value \in PayloadValues : PayloadSet(key, value)
    \/ \E m \in UpdateMaps : PayloadUpdate(m)
    \/ \E key \in PayloadKeys : PayloadDel(key)

SpecPayload == InitPayload /\ [][NextPayload]_vars
\* ================================================================ claims
\* how many elements of the sequence are x
RECURSIVE Count(_, _)
Count(seq, x) ==
    IF seq = <<>> THEN 0
    ELSE (IF Head(seq) = x THEN 1 ELSE 0) + Count(Tail(seq), x)

\* the sources loop of the current cycle is over and was not left on the stop signal
SourcesLoopDone == pc \notin {"checks"} /\ stop_seen # "checks"

\* C1: a regular source whose collection raises, at any position of the list,
\* yields a check status record with empty instance statuses and zero metric and
\* event counts, and every source after it is still run and its metrics reach
\* the payload.
C1_RaisingSourceIsolated ==
    \A k \in DOMAIN ran :
        ran[k].outcome.raises =>
            /\ k <= Len(check_statuses)
            /\ check_statuses[k].name = ran[k].name
            /\ check_statuses[k].instance_statuses = Some(<<>>)
            /\ check_statuses[k].metric_count = 0
            /\ check_statuses[k].event_count = 0
            /\ SourcesLoopDone =>
                  /\ Len(ran) = Len(initialized_checks_d)
                  /\ \A j \in DOMAIN ran :
                        j > k => Count(GetItem(payload, "metrics"), ran[j].name)
                                    = ran[j].outcome.metrics

\* the emitter the call number c of an emit over n emitters goes to
EmitterOfCall(c, n) == ((c - 1) % n) + 1

\* emit has returned to its caller, and was called with continue_running true
EmitReturnedRunning == pc = "emitted" /\ emit.continue_running

\* C2: with continue_running true, every emitter is called exactly once per
\* payload sent, in list order, whichever of them raise; emit returns one status
\* record per call, in call order, marked failed exactly for the calls that raised.
C2_EmitIsolatesEmitters ==
    EmitReturnedRunning =>
        /\ Len(emit_calls) = Len(emitters) * (IF emit.merge_payloads THEN 1 ELSE 2)
        /\ Len(emit.statuses) = Len(emit_calls)
        /\ \A c \in DOMAIN emit_calls :
              /\ emit_calls[c].emitter = emitters[EmitterOfCall(c, Len(emitters))]
              /\ emit.statuses[c].name = emit_calls[c].emitter
              /\ emit.statuses[c].failed = emit_calls[c].raised

C2_Witness ==
    /\ EmitReturnedRunning
    /\ Len(emitters) >= 2
    /\ emit_calls[1].raised
    /\ ~emit_calls[2].raised

\* C3: once the stop signal is raised while emit iterates over the emitters, no
\* emitter call is started.
C3_NoCallAfterStop ==
    \A c \in DOMAIN emit_calls : ~emit_calls[c].stopped

\* C4: with continue_running true and N emitters, a merged emit makes N calls,
\* each with the merged view and the common endpoint; a split emit makes 2N calls,
\* the data map to 'metrics' for every emitter and then the metadata map to
\* 'metadata' for every emitter.
C4_EmitCallsPerMode ==
    EmitReturnedRunning =>
        LET n == Len(emitters)
        IN  IF emit.merge_payloads
            THEN /\ Len(emit_calls) = n
                 /\ \A c \in DOMAIN emit_calls :
                       /\ emit_calls[c].emitter = emitters[c]
                       /\ emit_calls[c].payload = MergedPayload(payload)
                       /\ emit_calls[c].endpoint = ""
            ELSE /\ Len(emit_calls) = 2 * n
                 /\ \A c \in 1..n :
                       /\ emit_calls[c].emitter = emitters[c]
                       /\ emit_calls[c].payload = payload.data_payload
                       /\ emit_calls[c].endpoint = "metrics"
                       /\ emit_calls[n + c].emitter = emitters[c]
                       /\ emit_calls[n + c].payload = payload.meta_payload
                       /\ emit_calls[n + c].endpoint = "metadata"

C4_Witness ==
    /\ EmitReturnedRunning
    /\ ~emit.merge_payloads
    /\ Len(emitters) >= 2
    /\ Len(emit_calls) = 2 * Len(emitters)
    /\ payload.data_payload # payload.meta_payload

\* the stop signal was seen at the top of one of the two loops of run
StoppedInLoops == stop_seen \in {"checks", "init_failed"}

\* C5: when the stop signal is raised as run is about to start a regular source or
\* to build an initialization-failure record, run returns None at once: no source
\* is started, no record built, the agent metrics check is not run, no emitter is
\* called and nothing is persisted in that cycle.
C5_StopReturnsNoPayload ==
    /\ [](StoppedInLoops =>
            /\ pc = "idle"
            /\ ret = "None"
            /\ agent_metrics_context = None
            /\ emit_calls = <<>>
            /\ persisted = None)
    /\ [][(pc \in {"checks", "init_failed"} /\ ~continue_running) =>
            /\ ran' = ran
            /\ check_statuses' = check_statuses
            /\ payload' = payload
            /\ pc' = pc \/ (pc' = "idle" /\ ret' = "None")]_vars

C5_Witness ==
    /\ StoppedInLoops
    /\ ret = "None"
    /\ Len(check_statuses) >= 1
    /\ check_idx <= Len(initialized_checks_d) \/ failed_idx <= Len(init_failed_checks_d)

\* C6 as stated: in every cycle in which the stop signal is observed, at whichever
\* check point, the cycle returns without status persistence.
C6_StopNeverPersists ==
    stop_seen # "no" => persisted = None

\* C6 amended: observed at the top of either loop, the stop signal ends the cycle
\* without a payload, an emitter call or persistence; observed at emitter dispatch
\* (emit was entered with continue_running false) no emitter is called, and run
\* still persists the status, with no emitter status, and returns the payload.
C6_StopObserved ==
    /\ StoppedInLoops =>
          /\ pc = "idle" /\ ret = "None"
          /\ emit_calls = <<>>
          /\ persisted = None
    /\ (pc \in {"emit", "persist"} /\ ~emit.continue_running) =>
          /\ emit_calls = <<>>
          /\ emit.statuses = <<>>
    /\ stop_seen = "emit" =>
          /\ emit_calls = <<>>
          /\ pc \in {"persist", "idle"}
          /\ pc = "idle" =>
                /\ ret = "payload"
                /\ persisted # None
                /\ persisted[1].emitter_statuses = <<>>

C6_Witness ==
    /\ stop_seen = "emit"
    /\ pc = "idle"
    /\ persisted # None
    /\ initialized_checks_d = <<>>
    /\ init_failed_checks_d = <<>>

\* the gate call last made: its task, and the task's entry before the call
GateCalled == lastGate.task # "none"
GateBefore == lastGate.before[lastGate.task]

\* C7: the gate returns true for every task on the first cycle whatever the
\* interval; on a later cycle it returns true exactly when now - start >= interval,
\* and a true return on a later cycle sets the task's start to now.
C7_GateFires ==
    GateCalled =>
        IF lastGate.run_count <= 1
        THEN lastGate.fire
        ELSE /\ lastGate.fire <=> (lastGate.now - GateBefore.start >= GateBefore.interval)
             /\ lastGate.fire => push_times[lastGate.task].start = lastGate.now
             /\ lastGate.now < GateBefore.start + GateBefore.interval => ~lastGate.fire

C7_Witness ==
    /\ GateCalled
    /\ lastGate.run_count = 2
    /\ lastGate.fire
    /\ lastGate.now - GateBefore.start = GateBefore.interval
    /\ push_times[lastGate.task].start # GateBefore.start

\* C8 as stated: whenever the gate returns true, on the first cycle as on later
\* ones, the task's start is the time of that call.
C8_EveryFireRearms ==
    (GateCalled /\ lastGate.fire) => push_times[lastGate.task].start = lastGate.now

\* C8 amended: a true return on a cycle after the first sets the task's start to
\* the time of the call; a true return on the first cycle leaves start as it was
\* set at construction.
C8_FireRearmsAfterFirstCycle ==
    (GateCalled /\ lastGate.fire) =>
        IF lastGate.run_count > 1
        THEN /\ push_times[lastGate.task].start = lastGate.now
             /\ push_times[lastGate.task].interval = GateBefore.interval
        ELSE /\ push_times[lastGate.task] = GateBefore
             /\ GateBefore.start = IF lastGate.task = "external_host_tags"
                                   THEN 0 - ExternalHostTagsWait ELSE 0

C8_Witness ==
    /\ GateCalled
    /\ lastGate.fire
    /\ lastGate.run_count = 1
    /\ lastGate.now > 0
    /\ push_times[lastGate.task].start # lastGate.now

\* C9: the first payload handed to an emitter carries systemStats, meta and
\* agent_checks, whatever happened in earlier calls of run.
C9_FirstShippedHasMetadata ==
    first_shipped # None => {"systemStats", "meta", "agent_checks"} \subseteq first_shipped[1]

\* C10: the check statuses handed to persistence show a source that collected
\* normally as OK and a source whose collection raised as ERROR.
C10_PersistedStatuses ==
    (persisted # None /\ Len(ran) = 2) =>
        \A k \in DOMAIN ran :
            \A j \in DOMAIN ran :
                (CollectedNormally(ran[k].outcome) /\ ran[j].outcome.raises) =>
                    /\ Len(persisted[1].check_statuses) >= 2
                    /\ persisted[1].check_statuses[k].name = ran[k].name
                    /\ persisted[1].check_statuses[j].name = ran[j].name
                    /\ StatusOf(persisted[1].check_statuses[k]) = STATUS_OK
                    /\ StatusOf(persisted[1].check_statuses[j]) = STATUS_ERROR

\* the places in the payload's service_checks of the check_status service
\* checks tagged with this source
CheckStatusChecksOf(name) ==
    LET service_checks == GetItem(payload, "service_checks")
    IN  {i \in DOMAIN service_checks :
            /\ service_checks[i].check = "datadog.agent.check_status"
            /\ service_checks[i].tags = <<"check:" \o name>>}

\* C11: every regular source run in the cycle, whether its collection succeeded
\* or raised, has exactly one datadog.agent.check_status service check tagged
\* with its name in the payload's service_checks, OK when the derived status of
\* its record is OK and CRITICAL when it is ERROR.
C11_CheckStatusSubmitted ==
    \A k \in DOMAIN ran :
        /\ Cardinality(CheckStatusChecksOf(ran[k].name)) = 1
        /\ k <= Len(check_statuses)
        /\ \A i \in CheckStatusChecksOf(ran[k].name) :
              GetItem(payload, "service_checks")[i].status =
                  IF StatusOf(check_statuses[k]) = STATUS_OK THEN AgentCheckOK
                  ELSE AgentCheckCRITICAL

\* the custom-module source of the current cycle raised in its check call
CustomCheckRaised == agentConfig.custom_checks > 0 /\ run_args.in.custom_raises

\* C12: when the check call of a legacy custom-module source raises, no exception
\* propagates out of run, the regular sources still run and the payload is still
\* emitted.
C12_CustomCheckIsolated ==
    CustomCheckRaised =>
        /\ ret # "raised"
        /\ pc = "idle" =>
              /\ Len(ran) = Len(initialized_checks_d)
              /\ Len(emit_calls) = Len(emitters)

\* the cycle ran to its end and returned the payload
CycleCompleted == pc = "idle" /\ ret = "payload"

\* C13: whatever lists the caller passes, cycle after cycle, the agent metrics
\* check is never run inside the regular sources loop, and in every completed
\* cycle it has run once, after the regular sources and the metadata population
\* and before the emission.
C13_AgentMetricsRunsLast ==
    /\ \A k \in DOMAIN ran : ran[k].name # AGENT_METRICS_CHECK_NAME
    /\ (CycleCompleted /\ agent_metrics # None) =>
          /\ agent_metrics_context # None
          /\ Count(GetItem(payload, "metrics"), "datadog.agent.collector") = 1

\* the agent metrics check was run in the current cycle
AgentMetricsRan == agent_metrics_context # None

RECURSIVE LastMeasured(_, _)
LastMeasured(log, n) ==
    IF n = 0 THEN None
    ELSE IF log[n] # None THEN log[n] ELSE LastMeasured(log, n - 1)

Wrote == last_op.op \in {"set", "update"}

\* C15: after set(k, v) of a metadata key, get(k) returns v; after any sequence
\* of set, update and delete the data map holds no metadata key and the metadata
\* map holds only metadata keys and duplicate keys.
C15_KeysRoutedBySets ==
    /\ \A k \in DOMAIN payload.data_payload : k \notin METADATA_KEYS
    /\ \A k \in DOMAIN payload.meta_payload : k \in METADATA_KEYS \cup DUPLICATE_KEYS
    /\ Wrote =>
          \A k \in DOMAIN last_op.items \cap METADATA_KEYS :
              /\ Contains(payload, k)
              /\ GetItem(payload, k) = last_op.items[k]

C15_Witness ==
    /\ last_op.op = "set"
    /\ last_op.key = "meta"
    /\ last_op.had
    /\ GetItem(payload, "meta") = MaxValue
    /\ "metrics" \in DOMAIN payload.data_payload
    /\ "agentKey" \in DOMAIN payload.meta_payload

\* C16: after any sequence of set, update and delete, a duplicate key is in both
\* maps with the same value or in neither; after set(k, v) get(k) returns v.
C16_DuplicateKeysInSync ==
    \A k \in DUPLICATE_KEYS :
        /\ k \in DOMAIN payload.data_payload <=> k \in DOMAIN payload.meta_payload
        /\ k \in DOMAIN payload.data_payload =>
              payload.data_payload[k] = payload.meta_payload[k]
        /\ (Wrote /\ k \in DOMAIN last_op.items) =>
              /\ Contains(payload, k)
              /\ GetItem(payload, k) = last_op.items[k]
              /\ payload.meta_payload[k] = last_op.items[k]

C16_Witness ==
    /\ last_op.op = "del"
    /\ last_op.key = "agentKey"
    /\ last_op.had
    /\ ~last_op.raised
    /\ "agentVersion" \in DOMAIN payload.meta_payload
    /\ "agentKey" \notin DOMAIN payload.data_payload \cup DOMAIN payload.meta_payload

\* the keys of the two maps, each told apart by its map
KeysOfBothMaps ==
    {<<"data", k>> : k \in DOMAIN payload.data_payload}
        \cup {<<"meta", k>> : k \in DOMAIN payload.meta_payload}

\* the number of entries a call on this key adds or removes
EntriesOf(key) == IF key \in DUPLICATE_KEYS THEN 2 ELSE 1

\* C17: after any sequence of set and delete, len(payload) is the number of keys
\* of the data map plus the number of keys of the metadata map: a set of a new
\* key and a delete change it by one, by two for a duplicate key.
C17_LenCountsBothMaps ==
    /\ PayloadLen(payload) = Cardinality(KeysOfBothMaps)
    /\ last_op.op = "set" =>
          PayloadLen(payload) =
              last_op.len + (IF last_op.had THEN 0 ELSE EntriesOf(last_op.key))
    /\ (last_op.op = "del" /\ ~last_op.raised) =>
          PayloadLen(payload) = last_op.len - EntriesOf(last_op.key)

C17_Witness ==
    /\ last_op.op = "set"
    /\ last_op.key = "agentVersion"
    /\ ~last_op.had
    /\ PayloadLen(payload) = 5
    /\ Cardinality(DOMAIN MergedPayload(payload)) = 3

\* the resources block of the payload of the current cycle
Resources == GetItem(payload, "resources")

\* C18: on a cycle of a non-Windows host, resources has a meta entry exactly when
\* a resource source returned snapshots in this cycle; when none did, resources
\* has neither a meta entry nor an entry of a source.
C18_ResourcesMeta ==
    (os # "windows" /\ ret # "not_run") =>
        /\ "meta" \in DOMAIN Resources <=> run_args.in.snaps
        /\ "processes" \in DOMAIN Resources <=> run_args.in.snaps
        /\ ~run_args.in.snaps => DOMAIN Resources = {}

C18_Witness ==
    /\ os # "windows"
    /\ CycleCompleted
    /\ run_args.in.snaps
    /\ DOMAIN Resources = {"processes", "meta"}
    /\ Resources["meta"].host = GetItem(payload, "internalHostname")

\* C19: when status persistence raises, run still returns the payload and no
\* exception leaves it; the step of persistence, raising or not, leaves the run
\* counter, the emission duration, the gates and the cached host metadata as
\* they were, so the Collector is the same after either outcome.
C19_PersistFailureSwallowed ==
    /\ []((persisted # None /\ persisted[1].raised) =>
            /\ pc = "idle"
            /\ ret = "payload"
            /\ emit_duration # None)
    /\ [][(pc = "persist" /\ pc' # "persist") =>
            /\ pc' = "idle"
            /\ ret' = "payload"
            /\ selfVars' = selfVars
            /\ payload' = payload]_vars

C19_Witness ==
    /\ persisted # None
    /\ persisted[1].raised
    /\ CycleCompleted
    /\ run_count = MaxRuns
    /\ Len(emit_calls) = Len(emitters)
    /\ Len(emitters) > 0

\* the keys of the payload handed to the emitter in call number c
EmittedKeys(c) == DOMAIN emit_calls[c].payload

\* C20: in every emitted payload agent_checks is present only if the agent_checks
\* gate fired in that cycle, systemStats and gohai only if the host_metadata gate
\* fired, and meta only if one of the two fired.
C20_LowFrequencyKeysGated ==
    \A c \in DOMAIN emit_calls :
        /\ "agent_checks" \in EmittedKeys(c) => "agent_checks" \in gates_fired
        /\ "systemStats" \in EmittedKeys(c) => "host_metadata" \in gates_fired
        /\ "gohai" \in EmittedKeys(c) => "host_metadata" \in gates_fired
        /\ "meta" \in EmittedKeys(c) =>
              gates_fired \cap {"host_metadata", "agent_checks"} # {}

C20_Witness ==
    /\ emit_calls # <<>>
    /\ run_count = 2
    /\ start_event
    /\ "host_metadata" \notin gates_fired
    /\ "agent_checks" \in gates_fired
    /\ {"agent_checks", "meta"} \subseteq EmittedKeys(1)
    /\ EmittedKeys(1) \cap {"systemStats", "gohai"} = {}

\* the agent_checks gate fired in the current cycle
AgentChecksFired == "agent_checks" \in gates_fired

\* the number of entries agent_checks is to hold for these records: one for every
\* instance status, one for every source that failed to initialize
RECURSIVE EntriesExpected(_)
EntriesExpected(statuses) ==
    IF statuses = <<>> THEN 0
    ELSE (IF Head(statuses).instance_statuses # None
          THEN Len(Head(statuses).instance_statuses[1]) ELSE 1)
         + EntriesExpected(Tail(statuses))

\* C21: in every cycle where the agent_checks gate fires, whatever the sources
\* did, metadata population ends without raising, agent_checks holds one entry
\* for every instance status of every record and one for every source that
\* failed to initialize, and meta is the cached host metadata.
C21_AgentChecksComplete ==
    AgentChecksFired =>
        /\ ret # "raised"
        /\ Len(GetItem(payload, "agent_checks")) = EntriesExpected(check_statuses)
        /\ GetItem(payload, "meta") = hostname_metadata_cache

\* the number of events the non-raising sources called name returned in the runs
\* 1..n of the current cycle
RECURSIVE Contributed(_, _)
Contributed(name, n) ==
    IF n = 0 THEN 0
    ELSE (IF ran[n].name = name /\ ~ran[n].outcome.raises THEN ran[n].outcome.events
          ELSE 0) + Contributed(name, n - 1)

\* C22: the events of a regular source are stored under its name additively,
\* appended to an entry the name already has in this cycle; every event a
\* non-raising source contributed is in the events map of the emitted payload.
C22_EventsAdditive ==
    \A c \in DOMAIN emit_calls :
        LET events == emit_calls[c].payload["events"]
        IN  /\ \A k \in DOMAIN ran :
                  Contributed(ran[k].name, Len(ran)) > 0 =>
                      /\ ran[k].name \in DOMAIN events
                      /\ Count(events[ran[k].name], SourceEvent(ran[k].name))
                            = Contributed(ran[k].name, Len(ran))
            /\ run_args.in.dogstream_events =>
                  /\ "dogstream" \in DOMAIN events
                  /\ Count(events["dogstream"], SourceEvent("dogstream_event")) = 1

\* the interval each task was constructed with
ConfiguredInterval(t) ==
    CASE t = "host_metadata" -> agentConfig.metadata_interval
      [] t = "external_host_tags" -> agentConfig.external_host_tags
      [] t = "agent_checks" -> agentConfig.agent_checks_interval
      [] t = "dd_check_tags" -> agentConfig.dd_check_tags_interval

\* C23: the gate state changes only when a gate fires: a query answered false
\* leaves every start and interval as it was, a query for one task leaves the
\* other tasks alone, no interval changes after construction, and with
\* create_dd_check_tags off the dd_check_tags gate is never rearmed.
C23_GateStateFrame ==
    /\ [](\A t \in Tasks : push_times[t].interval = ConfiguredInterval(t))
    /\ [](~agentConfig.create_dd_check_tags => push_times["dd_check_tags"].start = 0)
    /\ [][/\ (lastGate' # lastGate /\ ~lastGate'.fire) => push_times' = push_times
          /\ push_times' # push_times =>
                /\ lastGate' # lastGate
                /\ lastGate'.fire
                /\ \A t \in Tasks \ {lastGate'.task} : push_times'[t] = push_times[t]]_vars

C23_Witness ==
    /\ ~agentConfig.create_dd_check_tags
    /\ CycleCompleted
    /\ run_count = 2
    /\ lastGate.task = "agent_checks"
    /\ ~lastGate.fire
    /\ push_times = lastGate.before
    /\ "external_host_tags" \in gates_fired
    /\ clock - push_times["dd_check_tags"].start >= push_times["dd_check_tags"].interval

\* in the current cycle the agent_checks gate fired and the host_metadata gate
\* did not
OnlyAgentChecksFired ==
    "agent_checks" \in gates_fired /\ "host_metadata" \notin gates_fired

\* C24: the cached host metadata changes only in a cycle where the host_metadata
\* gate fires, and is then that cycle's meta; in every other cycle it stays as it
\* is, and a cycle where only the agent_checks gate fires ships as meta the value
\* cached when the host_metadata gate last refreshed it.
C24_HostMetadataCache ==
    /\ [][hostname_metadata_cache' # hostname_metadata_cache =>
            /\ "host_metadata" \in gates_fired'
            /\ "host_metadata" \notin gates_fired
            /\ hostname_metadata_cache' = GetItem(payload', "meta")
            /\ hostname_metadata_cache'[1].refreshed_in_run = run_count]_vars
    /\ [](OnlyAgentChecksFired =>
            /\ hostname_metadata_cache # None =>
                  hostname_metadata_cache[1].refreshed_in_run < run_count
            /\ ret # "raised" => GetItem(payload, "meta") = hostname_metadata_cache
            /\ \A c \in DOMAIN emit_calls :
                  emit_calls[c].payload["meta"] = hostname_metadata_cache)

C24_Witness ==
    /\ OnlyAgentChecksFired
    /\ run_count = 2
    /\ emit_calls # <<>>
    /\ hostname_metadata_cache = Some([hostname |-> "hostname", refreshed_in_run |-> 1])
    /\ emit_calls[1].payload["meta"] = hostname_metadata_cache

\* the place of each step of run in the order of the claim
Rank(at) ==
    CASE at = "checks" -> 1
      [] at = "init_failed" -> 2
      [] at = "metadata" -> 3
      [] at = "external_host_tags" -> 4
      [] at = "agent_checks" -> 5
      [] at = "dd_check_tags" -> 6
      [] at = "agent_metrics" -> 7
      [] at = "emit" -> 8
      [] at = "persist" -> 9
      [] OTHER -> 0

\* the phase a metric of the payload comes from
MetricPhase(metric) ==
    CASE metric = "system.win32" -> 1
      [] metric = "custom" -> 2
      [] metric = "datadog.agent.collector" -> 4
      [] OTHER -> 3

\* the metrics are in the order of the phases, the regular sources' in
\* registration order
MetricsInPhaseOrder(metrics) ==
    \A i \in DOMAIN metrics : \A j \in DOMAIN metrics :
        i < j =>
            /\ MetricPhase(metrics[i]) <= MetricPhase(metrics[j])
            /\ (IndexOf(initialized_checks_d, metrics[i], 1) > 0
                /\ IndexOf(initialized_checks_d, metrics[j], 1) > 0) =>
                  IndexOf(initialized_checks_d, metrics[i], 1)
                      <= IndexOf(initialized_checks_d, metrics[j], 1)

\* the regular sources were all run, in registration order, then the records of
\* the sources that failed to initialize were built, then the agent's own service
\* check was added, the metadata populated and the agent metrics check run
CollectionDone ==
    /\ Len(ran) = Len(initialized_checks_d)
    /\ \A k \in DOMAIN ran : ran[k].name = initialized_checks_d[k]
    /\ Len(check_statuses) = Len(initialized_checks_d) + Len(init_failed_checks_d)
    /\ \A k \in DOMAIN check_statuses :
          check_statuses[k].name =
              IF k <= Len(ran) THEN initialized_checks_d[k]
              ELSE init_failed_checks_d[k - Len(ran)]
    /\ LET service_checks == GetItem(payload, "service_checks")
       IN  /\ Len(service_checks) = Len(ran) + 1
           /\ service_checks[Len(service_checks)].check = "datadog.agent.up"
           /\ \A k \in DOMAIN ran :
                 service_checks[k].tags = <<"check:" \o initialized_checks_d[k]>>
    /\ lastGate.run_count = run_count
    /\ lastGate.task = IF agentConfig.create_dd_check_tags THEN "dd_check_tags"
                       ELSE "agent_checks"
    /\ agent_metrics # None => AgentMetricsRan
    /\ MetricsInPhaseOrder(GetItem(payload, "metrics"))

\* C25: within a cycle the phases occur in the order skeleton, system sources,
\* legacy sources, resource sources, custom-module sources, regular sources in
\* registration order, initialization-failure records, agent-up service check,
\* metadata population, agent metrics check, emission, persistence; no emitter
\* is called before every regular source has finished, and persistence never
\* precedes emission.
C25_PhaseOrder ==
    /\ [][/\ (pc' # pc /\ pc # "idle" /\ pc' # "idle") => Rank(pc') > Rank(pc)
          /\ (pc' = "idle" /\ pc # "idle" /\ ret' = "payload") => pc = "persist"
          /\ pc' = "emit" => persisted' = None
          /\ pc' \in {"checks", "init_failed"} => emit_calls' = <<>>]_vars
    /\ []((emit.active \/ emit_calls # <<>>) =>
            /\ CollectionDone
            /\ \A c \in DOMAIN emit_calls : emit_calls[c].payload = MergedPayload(payload))
    /\ [](persisted # None =>
            /\ ~emit.active
            /\ emit_log[run_count] # None
            /\ emit.continue_running => Len(emit_calls) = Len(emitters)
            /\ CollectionDone)

C25_Witness ==
    /\ CycleCompleted
    /\ persisted # None
    /\ os = "windows"
    /\ Len(ran) = 2
    /\ Len(check_statuses) = 3
    /\ GetItem(payload, "metrics") = <<"system.win32", "custom", CheckName(1), CheckName(2),
                                       "datadog.agent.collector">>
    /\ Len(emit_calls) = 1

\* C26: once stop has returned, continue_running never becomes true again, and
\* an emit that run enters afterwards, in this cycle or in a later one, starts
\* no emitter call.
C26_StopIsSticky ==
    /\ [][~continue_running => ~continue_running']_vars
    /\ [][(~continue_running /\ ~emit.active /\ emit'.active) =>
            ~emit'.continue_running]_vars
    /\ [][emit_calls' # emit_calls =>
            \/ emit_calls' = <<>>
            \/ emit.active /\ emit.continue_running]_vars
    /\ []((emit.active /\ ~emit.continue_running) =>
            /\ emit_calls = <<>>
            /\ emit.local = <<>>
            /\ emit.statuses = <<>>)

C26_Witness ==
    /\ ~continue_running
    /\ run_count = 2
    /\ CycleCompleted
    /\ stop_seen = "emit"
    /\ emit_log[1] # None
    /\ first_shipped = None
    /\ Len(emitters) = MaxEmitters
    /\ emit_calls = <<>>

\* the key is in the merged view of the payload
Present(k) == k \in DOMAIN MergedPayload(payload)

\* C27: after any sequence of set, update and delete, iteration yields every key
\* of the data map and then every key of the metadata map: a duplicate key that
\* is present twice, every other present key once; len(payload) is the number of
\* keys of the merged view plus the number of duplicate keys present, and every
\* yielded key can be read with get.
C27_IterationYieldsBothMaps ==
    LET yielded == Iterate(payload)
        n_data == Cardinality(DOMAIN payload.data_payload)
    IN  /\ Len(yielded) = PayloadLen(payload)
        /\ \A i \in DOMAIN yielded :
              /\ i <= n_data => yielded[i] \in DOMAIN payload.data_payload
              /\ i > n_data => yielded[i] \in DOMAIN payload.meta_payload
              /\ Contains(payload, yielded[i])
        /\ \A k \in PayloadKeys :
              Count(yielded, k) = IF ~Present(k) THEN 0
                                  ELSE IF k \in DUPLICATE_KEYS THEN 2 ELSE 1
        /\ PayloadLen(payload) =
              Cardinality(DOMAIN MergedPayload(payload))
                  + Cardinality({k \in DUPLICATE_KEYS : Present(k)})

C27_Witness ==
    /\ last_op.op = "update"
    /\ DOMAIN MergedPayload(payload) = {"metrics", "meta", "agentKey", "agentVersion"}
    /\ Len(Iterate(payload)) = 6
    /\ Count(Iterate(payload), "agentKey") = 2
    /\ Count(Iterate(payload), "meta") = 1

====
